---------------------------- MODULE Spec2Model ----------------------------
(***************************************************************************)
(* Flight classification of the Schiphol analyzer                          *)
(* (src/schiphol_analyzer.py) and the collector functions built on it      *)
(* (src/opensky_2025_collector.py).                                        *)
(*                                                                         *)
(* Units.  Floats of the program are represented by integers:              *)
(*   latitude, longitude        micro-degrees                              *)
(*   distances                  metres        (the program: kilometres)    *)
(*   atan2 result               milli-degrees                              *)
(*   bearing_from_schiphol      tenths of a degree (the program rounds it  *)
(*                              to one decimal)                            *)
(*   baro_altitude              feet                                       *)
(*   noise before rounding      milli-dB                                   *)
(*   estimated_noise_db         tenths of a dB (rounded to one decimal)    *)
(* A frame (pandas DataFrame) is a record [columns, rows]; a row is a      *)
(* function whose domain is the frame's column set.                        *)
(***************************************************************************)
EXTENDS Integers, Sequences, FiniteSets, TLC

\* The longest batch of position reports that is ingested.
MaxBatch == 2

\* float('nan'), and None in a numeric column (pandas stores it as NaN).
NaN == -999999999

\* float('inf'), the distance of a report without coordinates.
Inf == 999999999

\* None in a column of dtype object, which a column is when all its values
\* are None.
None == -999999998

\* pd.isna
isna(x) == x \in {NaN, None}

Max(a, b) == IF a >= b THEN a ELSE b

Min(a, b) == IF a <= b THEN a ELSE b

\* Python's round(x, 1) on a non-negative value given in thousandths; the
\* result is in tenths.  An exact tie goes to the even tenth.
round1(x) ==
    LET q == x \div 100
        r == x % 100
    IN  IF r > 50 \/ (r = 50 /\ q % 2 = 1) THEN q + 1 ELSE q

(***************************************************************************)
(* Reference points.                                                       *)
(***************************************************************************)
schiphol_coords == [latitude |-> 52310500, longitude |-> 4768300]

house_coords == [latitude |-> 52395000, longitude |-> 4915000]

\* A reference point whose latitude is not a number.
malformed_coords == [latitude |-> NaN, longitude |-> 4915000]

\* The reference points calculate_noise_impact is called with.
Targets == {house_coords, schiphol_coords, malformed_coords}

\* The validation of geopy's Point, which geodesic builds from each of its
\* arguments: the coordinates are finite and the latitude is in [-90, 90].
valid_point(p) ==
    /\ ~isna(p.latitude) /\ ~isna(p.longitude)
    /\ p.latitude # Inf /\ p.longitude # Inf
    /\ -90000000 <= p.latitude /\ p.latitude <= 90000000

(***************************************************************************)
(* The library primitives geopy.distance.geodesic (WGS-84) and math.atan2  *)
(* of the bearing formula, tabulated at the sample positions the model     *)
(* ingests: to_schiphol and to_house are the geodesic distances in metres, *)
(* atan2 is math.degrees(math.atan2(y, x)) of the bearing formula in       *)
(* milli-degrees, in (-180000, 180000].                                    *)
(***************************************************************************)
GeoTable ==
    { [latitude |-> 52310500, longitude |-> 4768300, to_schiphol |-> 0,
       to_house |-> 13723, atan2 |-> 0],
      [latitude |-> 52395000, longitude |-> 4915000, to_schiphol |-> 13723,
       to_house |-> 0, atan2 |-> 46621],
      [latitude |-> 52310500, longitude |-> 4778300, to_schiphol |-> 682,
       to_house |-> 13235, atan2 |-> 89996],
      [latitude |-> 52373938, longitude |-> 4872303, to_schiphol |-> 10004,
       to_house |-> 3734, atan2 |-> 45005],
      [latitude |-> 52329565, longitude |-> 4799446, to_schiphol |-> 3002,
       to_house |-> 10723, atan2 |-> 44947],
      [latitude |-> 52301279, longitude |-> 4809691, to_schiphol |-> 3004,
       to_house |-> 12659, atan2 |-> 110003],
      [latitude |-> 52248235, longitude |-> 4827030, to_schiphol |-> 8004,
       to_house |-> 17398, atan2 |-> 149989],
      [latitude |-> 52099371, longitude |-> 4642757, to_schiphol |-> 25011,
       to_house |-> 37787, atan2 |-> -159928],
      [latitude |-> 52202917, longitude |-> 4285401, to_schiphol |-> 35080,
       to_house |-> 47975, atan2 |-> -109808],
      [latitude |-> 52329227, longitude |-> 4594786, to_schiphol |-> 12014,
       to_house |-> 23009, atan2 |-> -79918],
      [latitude |-> 52466162, longitude |-> 4621474, to_schiphol |-> 19999,
       to_house |-> 21478, atan2 |-> -29869],
      [latitude |-> 52670500, longitude |-> 4767900, to_schiphol |-> 40060,
       to_house |-> 32241, atan2 |-> -39] }

GeoAt(lat, lon) ==
    CHOOSE g \in GeoTable : g.latitude = lat /\ g.longitude = lon

\* geodesic((lat, lon), target_coords).kilometers, in metres.
geodesic(lat, lon, target_coords) ==
    IF target_coords = schiphol_coords
    THEN GeoAt(lat, lon).to_schiphol
    ELSE GeoAt(lat, lon).to_house

\* math.degrees(math.atan2(y, x)) for the report at (lat, lon), seen from
\* schiphol_coords.
atan2_degrees(lat, lon) == GeoAt(lat, lon).atan2


\* row[col] = v, as in df[col] = ... for one row: adds or overwrites.
assign(row, col, v) == (col :> v) @@ row

\* A float comparison x < y: false when x is NaN.
FloatLt(x, y) == ~isna(x) /\ x < y

(***************************************************************************)
(* SchipholFlightAnalyzer.calculate_noise_impact                           *)
(***************************************************************************)
calc_distance(row, target_coords) ==
    IF isna(row.latitude) \/ isna(row.longitude)
    THEN Inf
    ELSE geodesic(row.latitude, row.longitude, target_coords)

\* Whether calc_distance raises for the row: geodesic raises ValueError for
\* a point that is not valid.
calc_distance_raises(row, target_coords) ==
    /\ ~(isna(row.latitude) \/ isna(row.longitude))
    /\ ~(valid_point(row) /\ valid_point(target_coords))

\* estimate_noise with a guard in place of the clamp: an altitude below
\* 100 ft gives 0 like a missing one.
estimate_noise_guarded(row) ==
    IF isna(row.baro_altitude) \/ row.distance_km = Inf
           \/ row.baro_altitude < 100
    THEN 0
    ELSE LET distance_m == Max(row.distance_km, 100)
             altitude_reduction == Min(row.baro_altitude * 5, 40000)
             distance_reduction == Min(distance_m * 2, 20000)
         IN  round1(Max(80000 - altitude_reduction - distance_reduction,
                        30000))

\* The result is in tenths of a dB.  5 dB per 1000 ft is 5 milli-dB per
\* foot and 2 dB per km is 2 milli-dB per metre; 0.1 km is 100 m.
estimate_noise(row) ==
    IF isna(row.baro_altitude) \/ row.distance_km = Inf
    THEN 0
    ELSE LET altitude_ft == Max(row.baro_altitude, 100)
             distance_m == Max(row.distance_km, 100)
             base_noise == 80000
             altitude_reduction == Min(altitude_ft * 5, 40000)
             distance_reduction == Min(distance_m * 2, 20000)
             estimated_noise ==
                 Max(base_noise - altitude_reduction - distance_reduction,
                     30000)
         IN  round1(estimated_noise)

\* noise_impact_level with the cut points compared by >.
noise_impact_level_gt(noise_db) ==
    IF noise_db > 650 THEN "High Impact"
    ELSE IF noise_db > 550 THEN "Moderate Impact"
    ELSE IF noise_db > 450 THEN "Low Impact"
    ELSE "Minimal Impact"

\* noise_db is in tenths of a dB.
noise_impact_level(noise_db) ==
    IF noise_db >= 650 THEN "High Impact"
    ELSE IF noise_db >= 550 THEN "Moderate Impact"
    ELSE IF noise_db >= 450 THEN "Low Impact"
    ELSE "Minimal Impact"

NoiseColumns == {"distance_km", "estimated_noise_db", "noise_impact"}

\* One row of calculate_noise_impact: the three columns are added in turn.
noise_row(row, target_coords) ==
    LET r1 == assign(row, "distance_km", calc_distance(row, target_coords))
        r2 == assign(r1, "estimated_noise_db", estimate_noise(r1))
    IN  assign(r2, "noise_impact", noise_impact_level(r2.estimated_noise_db))

\* noise_frame on the reports that have coordinates only.
noise_frame_dropna(flight_data, target_coords) ==
    LET kept == SelectSeq(flight_data.rows,
                          LAMBDA row : ~(isna(row.latitude)
                                             \/ isna(row.longitude)))
    IN  [columns |-> flight_data.columns \cup NoiseColumns,
         rows |-> [i \in DOMAIN kept |-> noise_row(kept[i], target_coords)]]

\* The frame with the three columns of calculate_noise_impact.
noise_frame(flight_data, target_coords) ==
    [columns |-> flight_data.columns \cup NoiseColumns,
     rows |-> [i \in DOMAIN flight_data.rows |->
                  noise_row(flight_data.rows[i], target_coords)]]

\* calculate_noise_impact without the copy: the columns are assigned to the
\* frame that was passed in.
calculate_noise_impact_in_place(flight_data, target_coords) ==
    IF flight_data.rows = << >>
    THEN [raised |-> "none", frame |-> flight_data, flight_data |-> flight_data]
    ELSE IF \E i \in DOMAIN flight_data.rows :
                calc_distance_raises(flight_data.rows[i], target_coords)
    THEN [raised |-> "ValueError", frame |-> flight_data,
          flight_data |-> flight_data]
    ELSE IF "baro_altitude" \notin flight_data.columns
    THEN [raised |-> "KeyError", frame |-> flight_data,
          flight_data |-> flight_data]
    ELSE [raised |-> "none",
          frame |-> noise_frame(flight_data, target_coords),
          flight_data |-> noise_frame(flight_data, target_coords)]

\* raised is the exception raised, frame the frame returned and flight_data
\* the frame that was passed in, as it is after the call: the columns are
\* assigned to df = flight_data.copy().  The distances are computed first,
\* and geodesic raises ValueError for a point that is not valid; then
\* row['baro_altitude'] is a KeyError when the frame has no such column.  An
\* empty frame is returned as it is.
calculate_noise_impact(flight_data, target_coords) ==
    IF flight_data.rows = << >>
    THEN [raised |-> "none", frame |-> flight_data, flight_data |-> flight_data]
    ELSE IF \E i \in DOMAIN flight_data.rows :
                calc_distance_raises(flight_data.rows[i], target_coords)
    THEN [raised |-> "ValueError", frame |-> flight_data,
          flight_data |-> flight_data]
    ELSE IF "baro_altitude" \notin flight_data.columns
    THEN [raised |-> "KeyError", frame |-> flight_data,
          flight_data |-> flight_data]
    ELSE [raised |-> "none",
          frame |-> noise_frame(flight_data, target_coords),
          flight_data |-> flight_data]

(***************************************************************************)
(* SchipholFlightAnalyzer.identify_schiphol_operations                     *)
(***************************************************************************)
distance_to_schiphol(row) ==
    IF isna(row.latitude) \/ isna(row.longitude)
    THEN Inf
    ELSE geodesic(row.latitude, row.longitude, schiphol_coords)

\* None is represented by NaN: pd.isna is true of both.
bearing_from_schiphol(row) ==
    IF isna(row.latitude) \/ isna(row.longitude)
    THEN NaN
    ELSE LET bearing == atan2_degrees(row.latitude, row.longitude)
             normalized == (bearing + 360000) % 360000
         IN  round1(normalized)

\* classify_operation reading the distance to the target, where the frame
\* has it, for the distance to Schiphol.
classify_operation_other_distance(row) ==
    LET distance == IF "distance_km" \in DOMAIN row
                    THEN row.distance_km
                    ELSE row.distance_to_schiphol_km
        altitude == IF "baro_altitude" \in DOMAIN row
                    THEN row.baro_altitude
                    ELSE 0
    IN  IF distance = Inf THEN "Unknown"
        ELSE IF distance < 5000
        THEN IF FloatLt(altitude, 1000)
             THEN "Landing/Takeoff"
             ELSE "Airport Vicinity"
        ELSE IF distance < 15000
        THEN IF FloatLt(altitude, 5000)
             THEN "Approach/Departure"
             ELSE "Transit (Low)"
        ELSE IF distance < 30000
        THEN IF FloatLt(altitude, 10000)
             THEN "Extended Approach"
             ELSE "Transit (Medium)"
        ELSE "Transit (High)"

\* classify_operation with the altitude cut points compared by <=.
classify_operation_le(row) ==
    LET distance == row.distance_to_schiphol_km
        altitude == IF "baro_altitude" \in DOMAIN row
                    THEN row.baro_altitude
                    ELSE 0
    IN  IF distance = Inf THEN "Unknown"
        ELSE IF distance < 5000
        THEN IF FloatLt(altitude, 1000 + 1)
             THEN "Landing/Takeoff"
             ELSE "Airport Vicinity"
        ELSE IF distance < 15000
        THEN IF FloatLt(altitude, 5000 + 1)
             THEN "Approach/Departure"
             ELSE "Transit (Low)"
        ELSE IF distance < 30000
        THEN IF FloatLt(altitude, 10000 + 1)
             THEN "Extended Approach"
             ELSE "Transit (Medium)"
        ELSE "Transit (High)"

\* classify_operation without the test for a missing distance.
classify_operation_no_inf(row) ==
    LET distance == row.distance_to_schiphol_km
        altitude == IF "baro_altitude" \in DOMAIN row
                    THEN row.baro_altitude
                    ELSE 0
    IN  IF distance < 5000
        THEN IF FloatLt(altitude, 1000)
             THEN "Landing/Takeoff"
             ELSE "Airport Vicinity"
        ELSE IF distance < 15000
        THEN IF FloatLt(altitude, 5000)
             THEN "Approach/Departure"
             ELSE "Transit (Low)"
        ELSE IF distance < 30000
        THEN IF FloatLt(altitude, 10000)
             THEN "Extended Approach"
             ELSE "Transit (Medium)"
        ELSE "Transit (High)"

\* row.get('baro_altitude', 0): the value, or 0 when there is no column.
classify_operation(row) ==
    LET distance == row.distance_to_schiphol_km
        altitude == IF "baro_altitude" \in DOMAIN row
                    THEN row.baro_altitude
                    ELSE 0
    IN  IF distance = Inf THEN "Unknown"
        ELSE IF distance < 5000
        THEN IF FloatLt(altitude, 1000)
             THEN "Landing/Takeoff"
             ELSE "Airport Vicinity"
        ELSE IF distance < 15000
        THEN IF FloatLt(altitude, 5000)
             THEN "Approach/Departure"
             ELSE "Transit (Low)"
        ELSE IF distance < 30000
        THEN IF FloatLt(altitude, 10000)
             THEN "Extended Approach"
             ELSE "Transit (Medium)"
        ELSE "Transit (High)"

\* The dictionary in declaration order; the bearing ranges are in degrees.
approach_corridors ==
    << [name |-> "north",     start |-> 315, end |-> 45],
       [name |-> "northeast", start |-> 45,  end |-> 90],
       [name |-> "east",      start |-> 90,  end |-> 135],
       [name |-> "southeast", start |-> 135, end |-> 180],
       [name |-> "south",     start |-> 180, end |-> 225],
       [name |-> "southwest", start |-> 225, end |-> 270],
       [name |-> "west",      start |-> 270, end |-> 315] >>

\* Whether a bearing (tenths of a degree) is in the range of a corridor.
in_corridor(bearing, c) ==
    IF c.start <= c.end
    THEN c.start * 10 <= bearing /\ bearing <= c.end * 10
    ELSE bearing >= c.start * 10 \/ bearing <= c.end * 10

\* The first corridor in declaration order whose range holds the bearing.
identify_corridor(bearing) ==
    IF isna(bearing) THEN "Unknown"
    ELSE LET hits == {i \in DOMAIN approach_corridors :
                         in_corridor(bearing, approach_corridors[i])}
         IN  IF hits = {} THEN "Other"
             ELSE approach_corridors[
                      CHOOSE i \in hits : \A j \in hits : i <= j].name

OperationColumns == {"distance_to_schiphol_km", "bearing_from_schiphol",
                     "schiphol_operation", "approach_corridor"}

\* One row of identify_schiphol_operations.
operation_row(row) ==
    LET r1 == assign(row, "distance_to_schiphol_km", distance_to_schiphol(row))
        r2 == assign(r1, "bearing_from_schiphol", bearing_from_schiphol(r1))
        r3 == assign(r2, "schiphol_operation", classify_operation(r2))
    IN  assign(r3, "approach_corridor",
               identify_corridor(r3.bearing_from_schiphol))

\* Whether classify_operation raises for the row: it compares the altitude
\* of a report within 30 km, and None < 1000 is a TypeError.
classify_operation_raises(row) ==
    /\ "baro_altitude" \in DOMAIN row
    /\ row.baro_altitude = None
    /\ distance_to_schiphol(row) < 30000

\* raised, frame and flight_data as for calculate_noise_impact.  The
\* distances are computed first, then the phases.
identify_schiphol_operations(flight_data) ==
    IF flight_data.rows = << >>
    THEN [raised |-> "none", frame |-> flight_data, flight_data |-> flight_data]
    ELSE IF \E i \in DOMAIN flight_data.rows :
                calc_distance_raises(flight_data.rows[i], schiphol_coords)
    THEN [raised |-> "ValueError", frame |-> flight_data,
          flight_data |-> flight_data]
    ELSE IF \E i \in DOMAIN flight_data.rows :
                classify_operation_raises(flight_data.rows[i])
    THEN [raised |-> "TypeError", frame |-> flight_data,
          flight_data |-> flight_data]
    ELSE [raised |-> "none",
          frame |-> [columns |-> flight_data.columns \cup OperationColumns,
                     rows |-> [i \in DOMAIN flight_data.rows |->
                                  operation_row(flight_data.rows[i])]],
          flight_data |-> flight_data]

(***************************************************************************)
(* SchipholFlightAnalyzer.analyze_residential_impact: the frame it         *)
(* analyses.  For an empty frame it returns an error dictionary.           *)
(***************************************************************************)
analyze_residential_impact(flight_data, target_coords) ==
    IF flight_data.rows = << >>
    THEN [raised |-> "none", frame |-> flight_data, flight_data |-> flight_data]
    ELSE LET noise == calculate_noise_impact(flight_data, target_coords)
             operations == identify_schiphol_operations(noise.frame)
         IN  IF noise.raised # "none"
             THEN [raised |-> noise.raised, frame |-> flight_data,
                   flight_data |-> flight_data]
             ELSE [raised |-> operations.raised,
                   frame |-> operations.frame,
                   flight_data |-> flight_data]

(***************************************************************************)
(* OpenSky2025Collector.enhance_flight_data and store_flight_data          *)
(***************************************************************************)
\* The columns of the flights table that the model carries.
db_columns == {"longitude", "latitude", "baro_altitude",
               "distance_to_house_km", "estimated_noise_db",
               "schiphol_operation", "approach_corridor"}

\* flights['distance_to_house_km'] = flights.apply(calc_distance, axis=1),
\* on the frame that was passed in.
with_distance_to_house(flights) ==
    [columns |-> flights.columns \cup {"distance_to_house_km"},
     rows |-> [i \in DOMAIN flights.rows |->
                  assign(flights.rows[i], "distance_to_house_km",
                         calc_distance(flights.rows[i], house_coords))]]

\* The value store_flight_data gives a column the frame lacks: 0.0 for the
\* two numeric analysis columns, None for the others (NaN in a numeric
\* column, "None" in a text column).
missing_column_value(col) ==
    IF col \in {"estimated_noise_db", "distance_to_house_km"} THEN 0
    ELSE IF col \in {"schiphol_operation", "approach_corridor"} THEN "None"
    ELSE NaN

\* The frame after the loop that ensures all the columns exist.
with_db_columns(flights) ==
    [columns |-> flights.columns \cup db_columns,
     rows |-> [i \in DOMAIN flights.rows |->
                  [col \in flights.columns \cup db_columns |->
                      IF col \in flights.columns
                      THEN flights.rows[i][col]
                      ELSE missing_column_value(col)]]]

\* flights[db_columns], the rows written by to_sql.
db_rows(flights) ==
    [i \in DOMAIN flights.rows |->
        [col \in db_columns |-> flights.rows[i][col]]]

(***************************************************************************)
(* The position reports the ingestion source yields: positions of GeoTable *)
(* and reports without a latitude or a longitude, with altitudes around    *)
(* the cut points of the phase table.                                      *)
(***************************************************************************)
PhasePositions ==
    {g \in GeoTable : g.to_schiphol \in {682, 13723, 19999}}

\* A missing altitude, an altitude below every cut point and the cut point
\* of the distance band of the position.
PhaseAltitudes(g) ==
    {NaN, 800,
     IF g.to_schiphol < 5000 THEN 1000
     ELSE IF g.to_schiphol < 15000 THEN 5000 ELSE 10000}

Reports ==
    UNION {{[latitude |-> g.latitude, longitude |-> g.longitude,
             baro_altitude |-> a] : a \in PhaseAltitudes(g)} :
              g \in PhasePositions}
    \cup
    {[latitude |-> g.latitude, longitude |-> g.longitude,
      baro_altitude |-> 8000] : g \in GeoTable}
    \cup
    {[latitude |-> house_coords.latitude, longitude |-> house_coords.longitude,
      baro_altitude |-> a] : a \in {-50, 0}}
    \cup
    {[latitude |-> NaN, longitude |-> house_coords.longitude,
      baro_altitude |-> a] : a \in {NaN, 800}}
    \cup
    {[latitude |-> house_coords.latitude, longitude |-> NaN,
      baro_altitude |-> a] : a \in {NaN, 800}}

    \cup
    {[latitude |-> g.latitude, longitude |-> g.longitude,
      baro_altitude |-> None] :
        g \in {h \in GeoTable : h.to_schiphol \in {682, 40060}}}
    \cup
    {[latitude |-> NaN, longitude |-> house_coords.longitude,
      baro_altitude |-> None]}
    \cup
    {[latitude |-> Inf, longitude |-> house_coords.longitude,
      baro_altitude |-> 8000]}

RawColumns == {"latitude", "longitude", "baro_altitude"}

\* Whether the report can be a row of the frame: a column that holds a
\* number holds NaN for a missing value, so None is the altitude of either
\* all the rows of a frame or none.
same_dtype(report, flight_data) ==
    "baro_altitude" \in flight_data.columns =>
        \A i \in DOMAIN flight_data.rows :
            flight_data.rows[i].baro_altitude = None
                <=> report.baro_altitude = None

\* The report as a row of a frame with the given columns.
as_row(report, columns) == [col \in columns |-> report[col]]

(***************************************************************************)
(* Text.  A str is a sequence of characters, so that upper, strip and      *)
(* startswith are computed; None is a sequence that no str equals.         *)
(***************************************************************************)
NoneText == <<"None">>

LowerCase ==
    <<"a", "b", "c", "d", "e", "f", "g", "h", "i", "j", "k", "l", "m",
      "n", "o", "p", "q", "r", "s", "t", "u", "v", "w", "x", "y", "z">>

UpperCase ==
    <<"A", "B", "C", "D", "E", "F", "G", "H", "I", "J", "K", "L", "M",
      "N", "O", "P", "Q", "R", "S", "T", "U", "V", "W", "X", "Y", "Z">>

\* str.upper
upper(text) ==
    [i \in DOMAIN text |->
        IF \E k \in DOMAIN LowerCase : LowerCase[k] = text[i]
        THEN UpperCase[CHOOSE k \in DOMAIN LowerCase : LowerCase[k] = text[i]]
        ELSE text[i]]

\* str.strip: without the leading and the trailing blanks.
strip(text) ==
    LET solid == {i \in DOMAIN text : text[i] # " "}
    IN  IF solid = {} THEN << >>
        ELSE SubSeq(text, CHOOSE i \in solid : \A j \in solid : i <= j,
                          CHOOSE i \in solid : \A j \in solid : i >= j)

\* str.startswith with one prefix.
startswith(text, prefix) ==
    Len(text) >= Len(prefix) /\ SubSeq(text, 1, Len(prefix)) = prefix

\* The truth value of a str or None: not text is true of None and of ''.
truthy(text) == text # NoneText /\ text # << >>

(***************************************************************************)
(* SchipholFlightAnalyzer.classify_aircraft_by_icao                        *)
(***************************************************************************)
\* The dictionary in declaration order.
airline_patterns ==
    << [pattern |-> <<"K", "L", "M">>, type |-> "Commercial Airline",
        category |-> "Major Carrier"],
       [pattern |-> <<"T", "R", "A">>, type |-> "Transavia",
        category |-> "Low Cost Carrier"],
       [pattern |-> <<"E", "Z", "Y">>, type |-> "EasyJet",
        category |-> "Low Cost Carrier"],
       [pattern |-> <<"R", "Y", "R">>, type |-> "Ryanair",
        category |-> "Low Cost Carrier"],
       [pattern |-> <<"B", "A", "W">>, type |-> "British Airways",
        category |-> "Major Carrier"],
       [pattern |-> <<"D", "L", "H">>, type |-> "Lufthansa",
        category |-> "Major Carrier"],
       [pattern |-> <<"A", "F", "R">>, type |-> "Air France",
        category |-> "Major Carrier"],
       [pattern |-> <<"U", "A", "E">>, type |-> "Emirates",
        category |-> "Major Carrier"],
       [pattern |-> <<"Q", "T", "R">>, type |-> "Qatar Airways",
        category |-> "Major Carrier"] >>

\* The prefixes of the callsign of a private aircraft.
private_patterns ==
    {<<"N">>, <<"G", "-">>, <<"P", "H", "-">>, <<"D", "-">>, <<"F", "-">>}

\* The classification after the rules on the prefix of the identifier,
\* which is in upper case and stripped.
classify_by_prefix(icao24) ==
    LET unknown == [type |-> "Unknown", category |-> "Unknown",
                    noise_level |-> "Unknown", likely_commercial |-> FALSE,
                    likely_private |-> FALSE]
    IN  IF \E c \in {"4", "D", "G", "F", "I"} : startswith(icao24, <<c>>)
        THEN [unknown EXCEPT !.likely_commercial = TRUE,
                             !.category = "Commercial"]
        ELSE IF \E c \in {"A", "C"} : startswith(icao24, <<c>>)
        THEN [unknown EXCEPT !.likely_private = TRUE,
                             !.category = "Private/Corporate"]
        ELSE IF startswith(icao24, <<"P", "H">>)
        THEN [unknown EXCEPT !.category = "Netherlands Registered"]
        ELSE unknown

\* The loop over airline_patterns: the first pattern the callsign starts
\* with updates the type and the category.
classify_by_airline(prefix_classification, callsign) ==
    LET hits == {k \in DOMAIN airline_patterns :
                     startswith(callsign, airline_patterns[k].pattern)}
        info == airline_patterns[CHOOSE k \in hits : \A j \in hits : k <= j]
    IN  IF hits = {} THEN prefix_classification
        ELSE [prefix_classification EXCEPT !.type = info.type,
                                           !.category = info.category,
                                           !.likely_commercial = TRUE]

\* The rule on the callsign of a private aircraft, which comes last.
classify_by_private(airline_classification, callsign) ==
    IF (\E p \in private_patterns : startswith(callsign, p))
           /\ Len(callsign) <= 6
    THEN [airline_classification EXCEPT
              !.likely_private = TRUE,
              !.category = "Private/General Aviation"]
    ELSE airline_classification

\* classify_aircraft_by_icao with the test icao24 is None for not icao24.
classify_aircraft_by_icao_is_none(icao24, callsign) ==
    IF icao24 = NoneText
    THEN [type |-> "Unknown", category |-> "Unknown", noise_level |-> "Unknown"]
    ELSE LET by_prefix == classify_by_prefix(strip(upper(icao24)))
         IN  IF truthy(callsign)
             THEN classify_by_private(
                      classify_by_airline(by_prefix, upper(strip(callsign))),
                      upper(strip(callsign)))
             ELSE by_prefix

classify_aircraft_by_icao(icao24, callsign) ==
    IF ~truthy(icao24)
    THEN [type |-> "Unknown", category |-> "Unknown", noise_level |-> "Unknown"]
    ELSE LET by_prefix == classify_by_prefix(strip(upper(icao24)))
         IN  IF truthy(callsign)
             THEN classify_by_private(
                      classify_by_airline(by_prefix, upper(strip(callsign))),
                      upper(strip(callsign)))
             ELSE by_prefix

classify_aircraft(icao24) ==
    IF ~truthy(icao24) THEN "Unknown"
    ELSE IF \E c \in {"4", "D", "G", "F", "I", "N"} :
                startswith(upper(icao24), <<c>>)
    THEN "Commercial"
    ELSE IF \E c \in {"A", "C"} : startswith(upper(icao24), <<c>>)
    THEN "Private/General Aviation"
    ELSE "Other"

\* The identifiers and the callsigns of the reports: hexadecimal addresses
\* as the source sends them, an empty and an absent one; callsigns of
\* airlines and of private aircraft, and the text that astype(str) makes of
\* an absent callsign.
Identifiers ==
    {NoneText,
     << >>,
     <<"4", "8", "4", "a", "b", "c">>,
     <<"a", "1", "b", "2", "c", "3">>,
     <<"c", "0", "f", "f", "e", "e">>,
     <<"3", "c", "6", "4", "4", "4">>,
     <<" ", "4", "b", "1", "a", "2", "c">>,
     <<"p", "h", "1", "2", "3", "4">>,
     <<"d", "0", "e", "1", "f", "2">>,
     <<"n", "1", "2", "3", "4", "5">>}

Callsigns ==
    {NoneText,
     << >>,
     <<"K", "L", "M", "1", "0", "2", "3">>,
     <<"N", "1", "2", "3", "A", "B">>,
     <<"N", "o", "n", "e">>,
     <<"N", "1", "2", "3", "4", "5", "6", "7">>,
     <<"P", "H", "-", "A", "B", "C">>,
     <<" ", "k", "l", "m", "1", "2", " ">>,
     <<"G", "-", "A", "B", "C", "D">>,
     <<"E", "Z", "Y", "1", "2", "A", "B">>}

(***************************************************************************)
(* AviationETLPipeline.  A row of the SQLite flights table is known by its *)
(* id, 1 for the first row appended; a row of the PostgreSQL table is      *)
(* [id |-> the id its sequence gave it, flight |-> the SQLite row].        *)
(***************************************************************************)
\* The most rows the SQLite flights table is given.
MaxFlights == 2

\* The last value the id sequence of the PostgreSQL table may reach.
MaxSequence == 4

\* SELECT MAX(id) FROM flight_data.flights, or 0 for an empty table and
\* for a query that raises.
get_last_processed_id(table, query_fails) ==
    IF query_fails \/ table = << >> THEN 0
    ELSE LET ids == {table[k].id : k \in DOMAIN table}
         IN  CHOOSE m \in ids : \A n \in ids : m >= n

\* SELECT * FROM flights WHERE id > ? ORDER BY id, on a table of the rows
\* 1 .. table_size.
extract_new_flights(table_size, last_processed_id) ==
    [k \in 1 .. Max(table_size - last_processed_id, 0) |->
        last_processed_id + k]

\* What cursor.execute does for one row: the insert succeeds, or it raises
\* before or after the sequence has given out an id.
InsertOutcomes == {"ok", "error", "error_after_nextval"}

\* The loop of load_flights_to_postgresql over the first i flights: the
\* count, the rows inserted and not rolled back, and the sequence.
RECURSIVE load_loop(_, _, _, _)
load_loop(flights, outcomes, sequence, i) ==
    IF i = 0
    THEN [loaded_count |-> 0, pending |-> << >>, sequence |-> sequence]
    ELSE LET before == load_loop(flights, outcomes, sequence, i - 1)
         IN  IF outcomes[i] = "ok"
             THEN [loaded_count |-> before.loaded_count + 1,
                   pending |-> Append(before.pending,
                                      [id |-> before.sequence + 1,
                                       flight |-> flights[i]]),
                   sequence |-> before.sequence + 1]
             ELSE [loaded_count |-> before.loaded_count,
                   pending |-> << >>,
                   sequence |-> IF outcomes[i] = "error_after_nextval"
                                THEN before.sequence + 1
                                ELSE before.sequence]

\* The rows are committed after the loop.
load_flights_to_postgresql(flights, outcomes, sequence) ==
    load_loop(flights, outcomes, sequence, Len(flights))

(***************************************************************************)
(* The two collectors and the schedule library they drive.  Times are      *)
(* seconds; now counts from the entry of start_two_week_collection or      *)
(* start_automated_collection, clock is the time of day of that entry.  A  *)
(* collection cycle is taken to last no time.                              *)
(***************************************************************************)
MaxTime == 660

peak_interval_minutes == 3

night_interval_minutes == 10

interval_minutes == 5

FourteenDays == 1209600

\* datetime.now().hour, elapsed seconds after an entry at time of day entry.
hour_of(entry, elapsed) == ((entry + elapsed) \div 3600) % 24

is_peak_hours(current_hour) == 6 <= current_hour /\ current_hour <= 23

get_collection_interval(current_hour) ==
    IF is_peak_hours(current_hour)
    THEN peak_interval_minutes
    ELSE night_interval_minutes

\* time.sleep of the loop of either collector.
poll_seconds(which) == IF which = "two_week" THEN 30 ELSE 10

\* schedule.every(interval).minutes.do(job), called at time t: the job is
\* first due one interval later.
every_minutes_do(scheduled, interval, t) ==
    Append(scheduled, [interval |-> interval, next_run |-> t + interval * 60])

\* A job of the schedule library is due once its next_run has come.
should_run(job, t) == t >= job.next_run

\* The times at which the collector may be entered: every full hour, and a
\* minute before the two hours at which the interval changes.
EntryClocks ==
    {h * 3600 : h \in 0 .. 23} \cup {6 * 3600 - 60, 23 * 3600 - 60}

\* The seconds between the construction of the two-week collector and the
\* entry of start_two_week_collection.
EntryDelays == {0, FourteenDays - 120}

(***************************************************************************)
(* The OpenSky client.  A token is the record of what the server knows of  *)
(* it, the time it was issued at and its lifetime; a dict of headers is a  *)
(* record, empty or with the field Authorization.  The state of the client *)
(* is the record of self.auth_method, self.access_token (a sequence of at  *)
(* most one token, empty for None) and self.token_expires_at.              *)
(***************************************************************************)
MaxClock == 360

\* The expires_in of the token response the code falls back on.
default_expires_in == 1800

\* The seconds the client takes off the lifetime of a token.
refresh_margin == 60

\* timeout=30 of both requests.
request_timeout == 30

no_headers == [k \in {} |-> k]

\* What the token endpoint answers: the request fails, or the body has a
\* token and an expires_in that is no number, or it has a token whose
\* expires_in is a number or is missing (None); delay is the time between
\* the issue of the token and the end of the request.
ExpiresIn == {None, 120, 300}

TokenResponses ==
    [kind : {"error", "bad_expires_in"}, expires_in : {None},
     delay : {0, request_timeout}]
        \cup [kind : {"ok"}, expires_in : ExpiresIn,
              delay : {0, request_timeout}]

\* What the flight endpoint answers.
FlightResponses == {"error", "bad_json", "no_states", "states"}

\* The lifetime the server gives a token it sends with this expires_in.
lifetime_of(expires_in) ==
    IF expires_in = None THEN default_expires_in ELSE expires_in

expires_at_late(received, expires_in) == received + expires_in + refresh_margin

\* datetime.now() + timedelta(seconds=expires_in - 60)
expires_at(received, expires_in) == received + expires_in - refresh_margin

\* The cached token is taken for valid.
token_is_valid(fetcher, t) ==
    /\ fetcher.access_token # << >>
    /\ fetcher.token_expires_at # None
    /\ t < fetcher.token_expires_at

\* _get_oauth2_token at time t, the token endpoint answering with response:
\* what it returns, the client afterwards, the time afterwards and whether
\* a token was requested.
get_oauth2_token(fetcher, t, response) ==
    IF fetcher.auth_method # "oauth2"
    THEN [ok |-> FALSE, fetcher |-> fetcher, t |-> t, requested |-> FALSE]
    ELSE IF token_is_valid(fetcher, t)
    THEN [ok |-> TRUE, fetcher |-> fetcher, t |-> t, requested |-> FALSE]
    ELSE LET received == t + response.delay
             token == [issued_at |-> t,
                       lifetime |-> lifetime_of(response.expires_in)]
         IN  CASE response.kind = "error" ->
                      [ok |-> FALSE, fetcher |-> fetcher, t |-> received,
                       requested |-> TRUE]
               [] response.kind = "bad_expires_in" ->
                      [ok |-> FALSE,
                       fetcher |-> [fetcher EXCEPT !.access_token = <<token>>],
                       t |-> received, requested |-> TRUE]
               [] OTHER ->
                      [ok |-> TRUE,
                       fetcher |->
                           [fetcher EXCEPT
                                !.access_token = <<token>>,
                                !.token_expires_at =
                                    expires_at(received,
                                               lifetime_of(
                                                   response.expires_in))],
                       t |-> received, requested |-> TRUE]

get_auth_headers_stale(fetcher, t, response) ==
    LET got == get_oauth2_token(fetcher, t, response)
    IN  [token |-> got,
         headers |-> IF /\ fetcher.auth_method = "oauth2"
                        /\ got.fetcher.access_token # << >>
                     THEN [Authorization |-> got.fetcher.access_token[1]]
                     ELSE no_headers]

\* _get_auth_headers: the outcome of _get_oauth2_token and the headers.
get_auth_headers(fetcher, t, response) ==
    LET got == get_oauth2_token(fetcher, t, response)
    IN  [token |-> got,
         headers |-> IF fetcher.auth_method = "oauth2" /\ got.ok
                     THEN [Authorization |-> got.fetcher.access_token[1]]
                     ELSE no_headers]

\* get_current_flights: the token call, the headers, the flight request as
\* it was sent and what the call returns ("empty" for an empty table,
\* "flights" for the cleaned table); no outcome of the two requests makes
\* it raise.
get_current_flights(fetcher, t, token_response, flight_response) ==
    LET auth == get_auth_headers(fetcher, t, token_response)
    IN  [token_response |-> token_response.kind,
         flight_response |-> flight_response,
         token |-> [ok |-> auth.token.ok, requested |-> auth.token.requested],
         headers |-> auth.headers,
         sent |-> <<[headers |-> auth.headers,
                     basic_auth |-> fetcher.auth_method = "basic"]>>,
         returned |-> IF flight_response = "states" THEN "flights"
                      ELSE "empty",
         raised |-> "none",
         fetcher |-> auth.token.fetcher,
         t |-> auth.token.t]

\* A client that has not been called.
NewFetchers ==
    [auth_method : {"oauth2", "basic", "anonymous"}, access_token : {<< >>},
     token_expires_at : {None}]

\* The rows collect_flight_data can log for a call of get_current_flights
\* that returned; enhance_raises tells whether enhance_flight_data raises.
collection_row(returned, enhance_raises) ==
    IF returned = "empty"
    THEN [flights_collected |-> 0, api_success |-> TRUE,
          error_message |-> NoneText]
    ELSE IF enhance_raises
    THEN [flights_collected |-> 0, api_success |-> FALSE,
          error_message |-> <<"E">>]
    ELSE [flights_collected |-> 1, api_success |-> TRUE,
          error_message |-> NoneText]

MaxLog == 2

\* No call of get_current_flights has been made.
no_call ==
    [token_response |-> "none", flight_response |-> "none",
     token |-> [ok |-> FALSE, requested |-> FALSE], headers |-> no_headers,
     sent |-> << >>, returned |-> "none", raised |-> "none"]

(***************************************************************************)
(* The Schiphol API client and its rate limit.  Times are seconds since    *)
(* the construction of the client.                                         *)
(***************************************************************************)
MaxElapsed == 90000

MaxFailures == 1

max_requests_per_hour == 500

\* timedelta.seconds: the seconds of a timedelta without its days.
seconds(delta) == delta % 86400

\* The hour after which the count is reset.
reset_after == 3600

\* The gaps between two calls: an hour and a day.
Gaps == {3600, 86400}

\* _check_rate_limit at time t: the count and last_reset afterwards, the
\* time afterwards (it sleeps when the limit is reached) and whether the
\* count was reset.
check_rate_limit(count, reset_at, t) ==
    LET hour_over == seconds(t - reset_at) >= reset_after
        count1 == IF hour_over THEN 0 ELSE count
        reset1 == IF hour_over THEN t ELSE reset_at
        wait_time == reset_after - seconds(t - reset1)
    IN  IF count1 >= max_requests_per_hour
        THEN [request_count |-> 0, last_reset |-> t + wait_time,
              t |-> t + wait_time, reset |-> TRUE]
        ELSE [request_count |-> count1, last_reset |-> reset1, t |-> t,
              reset |-> hour_over]

(***************************************************************************)
(* The bounding box of the OpenSky client and get_dual_flight_data.        *)
(* Degrees are hundredths.  A call is followed through its statements on   *)
(* the record of the box of the client, the local original_bounds, the box *)
(* each of the two fetches asked for, and whether a fetch has raised.      *)
(***************************************************************************)
AMSTERDAM_NOORD_BOUNDS ==
    [lat_min |-> 5235, lat_max |-> 5245, lon_min |-> 485, lon_max |-> 495]

schiphol_approach_bounds ==
    [lat_min |-> 5200, lat_max |-> 5270, lon_min |-> 450, lon_max |-> 520]

\* The boxes of the repository: the one of the client's class, the expanded
\* one and those the collectors give the client.
BoundingBoxes ==
    {AMSTERDAM_NOORD_BOUNDS,
     schiphol_approach_bounds,
     [lat_min |-> 5237, lat_max |-> 5242, lon_min |-> 489, lon_max |-> 494],
     [lat_min |-> 5200, lat_max |-> 5260, lon_min |-> 430, lon_max |-> 500],
     [lat_min |-> 5200, lat_max |-> 5260, lon_min |-> 420, lon_max |-> 510]}

\* fetcher.get_current_flights() or fetcher.get_historical_flights(1): the
\* request asks for the box the client has at that moment.
fetch(frame, which, raises) ==
    [frame EXCEPT ![which] = <<frame.bounds>>, !.raised = raises]

\* original_bounds = fetcher.AMSTERDAM_NOORD_BOUNDS.copy()
copy_bounds(frame) == [frame EXCEPT !.original_bounds = <<frame.bounds>>]

\* fetcher.AMSTERDAM_NOORD_BOUNDS = schiphol_approach_bounds
expand_bounds(frame) == [frame EXCEPT !.bounds = schiphol_approach_bounds]

restore_unless_raised(frame) ==
    IF frame.raised
    THEN frame
    ELSE [frame EXCEPT !.bounds = frame.original_bounds[1]]

\* finally: fetcher.AMSTERDAM_NOORD_BOUNDS = original_bounds
restore_bounds(frame) == [frame EXCEPT !.bounds = frame.original_bounds[1]]

get_dual_flight_data(bounds_before, mode, local_raises, schiphol_raises) ==
    LET entered == [mode |-> mode, before |-> bounds_before,
                    bounds |-> bounds_before, original_bounds |-> << >>,
                    local |-> << >>, schiphol |-> << >>, raised |-> FALSE]
        local_done == fetch(entered, "local", local_raises)
    IN  IF local_done.raised
        THEN local_done
        ELSE restore_bounds(
                 fetch(expand_bounds(copy_bounds(local_done)), "schiphol",
                       schiphol_raises))

\* No call of get_dual_flight_data has been made.
no_dual_call ==
    [mode |-> "none", before |-> AMSTERDAM_NOORD_BOUNDS,
     bounds |-> AMSTERDAM_NOORD_BOUNDS, original_bounds |-> << >>,
     local |-> << >>, schiphol |-> << >>, raised |-> FALSE]

(***************************************************************************)
(* State.                                                                  *)
(*   batch    the frame of raw reports handed to the classification        *)
(*   df       the frame the classification has produced so far             *)
(*   target   the target_coords of the last call that returned, as a       *)
(*            sequence of at most one                                      *)
(*   stored   the rows of the flights table                                *)
(*   raised   the exception the last call raised, or "none"                *)
(*   aircraft         the identifier and the callsign of a report          *)
(*   classifications  what classify_aircraft_by_icao returned for it, as a *)
(*                    sequence of at most one                              *)
(*   aircraft_type    what _classify_aircraft returned for it, likewise    *)
(*   sqlite_flights   the number of rows of the SQLite flights table       *)
(*   pg_flights       the rows of the PostgreSQL flights table             *)
(*   pg_sequence      the last id the PostgreSQL sequence gave out         *)
(*   etl_result       what the last run_etl_cycle returned                 *)
(*   pg_committed     the number of rows its load committed                *)
(*   collector    which collector runs: "two_week" or "automated"          *)
(*   pc           the statement of its start method that comes next        *)
(*   running      self.running                                             *)
(*   signalled    SIGINT or SIGTERM has been delivered                     *)
(*   now, clock   the seconds since the entry, the time of day of it       *)
(*   end_time     self.end_time, in seconds since the entry                *)
(*   jobs         the jobs of the schedule library                         *)
(*   last_cycle   the time of the last cycle that collected                *)
(*   client       the OpenSky client                                       *)
(*   wall_clock   datetime.now() of the client, in seconds                 *)
(*   call         the last call of get_current_flights: what the two       *)
(*                endpoints answered, the headers, the request sent and    *)
(*                what was returned                                        *)
(*   collection_log   the rows of the collection_log table                 *)
(*   fetcher_bounds   AMSTERDAM_NOORD_BOUNDS of the shared OpenSky client  *)
(*   dual             the last call of get_dual_flight_data, as it ended   *)
(*   request_count, last_reset   the fields of the Schiphol client         *)
(*   schiphol_clock   datetime.now() of the Schiphol client                *)
(*   requests_sent    the HTTP requests it has sent since the last reset   *)
(*                    of request_count                                     *)
(***************************************************************************)
VARIABLES batch, df, target, stored, raised

VARIABLES aircraft, classifications, aircraft_type

VARIABLES sqlite_flights, pg_flights, pg_sequence, etl_result, pg_committed

VARIABLES collector, pc, running, signalled, now, clock, end_time, jobs,
          last_cycle

classifyVars == <<batch, df, target, stored, raised>>

aircraftVars == <<aircraft, classifications, aircraft_type>>

etlVars ==
    <<sqlite_flights, pg_flights, pg_sequence, etl_result, pg_committed>>

VARIABLES client, wall_clock, call, collection_log

fetcherVars == <<client, wall_clock, call, collection_log>>

VARIABLES request_count, last_reset, schiphol_clock, requests_sent

schipholVars == <<request_count, last_reset, schiphol_clock, requests_sent>>

VARIABLES fetcher_bounds, dual

dualVars == <<fetcher_bounds, dual>>

collectorVars ==
    <<collector, pc, running, signalled, now, clock, end_time, jobs,
      last_cycle>>

serviceVars == <<collectorVars, fetcherVars, schipholVars, dualVars>>

vars == <<classifyVars, aircraftVars, etlVars, serviceVars>>

\* No batch is being classified.
ClassifyIdle ==
    /\ batch = [columns |-> RawColumns, rows |-> << >>]
    /\ df = batch
    /\ target = << >>
    /\ stored = << >>
    /\ raised = "none"

\* No aircraft is being classified.
AircraftIdle ==
    /\ aircraft = [icao24 |-> NoneText, callsign |-> NoneText]
    /\ classifications = << >>
    /\ aircraft_type = << >>

\* Both tables are empty and no cycle has run.
EtlIdle ==
    /\ sqlite_flights = 0
    /\ pg_flights = << >>
    /\ pg_sequence = 0
    /\ etl_result = [status |-> "none", flights_processed |-> 0]
    /\ pg_committed = 0

\* No collector has been started.
CollectorIdle ==
    /\ collector = "two_week"
    /\ pc = "done"
    /\ running = FALSE
    /\ signalled = FALSE
    /\ now = 0
    /\ clock = 0
    /\ end_time = FourteenDays
    /\ jobs = << >>
    /\ last_cycle = 0

\* The OpenSky client has not been called.
FetcherIdle ==
    /\ client = [auth_method |-> "anonymous", access_token |-> << >>,
                 token_expires_at |-> None]
    /\ wall_clock = 0
    /\ call = no_call
    /\ collection_log = << >>

\* The Schiphol client has sent no request.
SchipholIdle ==
    /\ request_count = 0
    /\ last_reset = 0
    /\ schiphol_clock = 0
    /\ requests_sent = 0

\* The client has the box of its class and no dual call has been made.
DualIdle ==
    /\ fetcher_bounds = AMSTERDAM_NOORD_BOUNDS
    /\ dual = no_dual_call

ServiceIdle ==
    /\ CollectorIdle
    /\ FetcherIdle
    /\ SchipholIdle
    /\ DualIdle

\* The frame of the ingestion source may or may not carry an altitude column.
Init ==
    /\ batch \in {[columns |-> c, rows |-> << >>] :
                     c \in {RawColumns, RawColumns \ {"baro_altitude"}}}
    /\ df = batch
    /\ target = << >>
    /\ stored = << >>
    /\ raised = "none"
    /\ AircraftIdle
    /\ EtlIdle
    /\ ServiceIdle

Untouched ==
    df = batch /\ target = << >> /\ stored = << >> /\ raised = "none"

\* The ingestion source adds a report to the batch before it is classified.
AppendReport(report) ==
    /\ Untouched
    /\ Len(batch.rows) < MaxBatch
    /\ same_dtype(report, batch)
    /\ batch' = [batch EXCEPT !.rows = Append(@, as_row(report, batch.columns))]
    /\ df' = batch'
    /\ UNCHANGED <<target, stored, raised>>
    /\ UNCHANGED <<aircraftVars, etlVars, serviceVars>>

\* df = calculate_noise_impact(df, target_coords), before anything is stored.
\* The frame passed in is the batch itself as long as df is the batch.  The
\* reference point is configured once: one that is not valid is met by the
\* first call.
CalculateNoiseImpact(target_coords) ==
    /\ raised = "none"
    /\ stored = << >>
    /\ valid_point(target_coords) \/ Untouched
    /\ LET res == calculate_noise_impact(df, target_coords)
       IN  /\ raised' = res.raised
           /\ df' = res.frame
           /\ batch' = IF df = batch THEN res.flight_data ELSE batch
           /\ target' = IF res.raised = "none" THEN <<target_coords>>
                        ELSE target
    /\ UNCHANGED stored
    /\ UNCHANGED <<aircraftVars, etlVars, serviceVars>>

\* df = identify_schiphol_operations(df), before anything is stored.
IdentifySchipholOperations ==
    /\ raised = "none"
    /\ stored = << >>
    /\ LET res == identify_schiphol_operations(df)
       IN  /\ raised' = res.raised
           /\ df' = res.frame
           /\ batch' = IF df = batch THEN res.flight_data ELSE batch
    /\ UNCHANGED <<target, stored>>
    /\ UNCHANGED <<aircraftVars, etlVars, serviceVars>>

\* analyze_residential_impact(batch, target_coords) on a batch that has not
\* been classified.
AnalyzeResidentialImpact(target_coords) ==
    /\ Untouched
    /\ LET res == analyze_residential_impact(batch, target_coords)
       IN  /\ raised' = res.raised
           /\ df' = res.frame
           /\ batch' = res.flight_data
           /\ target' = IF res.raised = "none" THEN <<target_coords>>
                        ELSE target
    /\ UNCHANGED stored
    /\ UNCHANGED <<aircraftVars, etlVars, serviceVars>>

\* flights = enhance_flight_data(flights, area_type) on the raw batch: the
\* distance to the house is written into the frame passed in, the noise
\* impact and the operations are computed on copies.
EnhanceFlightData ==
    /\ Untouched
    /\ IF batch.rows = << >>
       THEN UNCHANGED <<batch, df, target, raised>>
       ELSE IF \E i \in DOMAIN batch.rows :
                   calc_distance_raises(batch.rows[i], house_coords)
       THEN raised' = "ValueError" /\ UNCHANGED <<batch, df, target>>
       ELSE LET flights == with_distance_to_house(batch)
                noise == calculate_noise_impact(flights, house_coords)
                operations == identify_schiphol_operations(noise.frame)
            IN  /\ batch' = flights
                /\ raised' = IF noise.raised # "none" THEN noise.raised
                              ELSE operations.raised
                /\ df' = IF noise.raised # "none" THEN flights
                         ELSE operations.frame
                /\ target' = IF noise.raised = "none" THEN <<house_coords>>
                             ELSE target
    /\ UNCHANGED stored
    /\ UNCHANGED <<aircraftVars, etlVars, serviceVars>>

\* store_flight_data(df): the missing columns are added to the frame passed
\* in, then the rows are appended to the flights table.
StoreFlightData ==
    /\ raised = "none"
    /\ df.rows # << >>
    /\ Len(stored) + Len(df.rows) <= MaxBatch
    /\ df' = with_db_columns(df)
    /\ stored' = stored \o db_rows(df')
    /\ UNCHANGED <<batch, target, raised>>
    /\ UNCHANGED <<aircraftVars, etlVars, serviceVars>>

Next ==
    \/ \E report \in Reports : AppendReport(report)
    \/ \E target_coords \in Targets : CalculateNoiseImpact(target_coords)
    \/ IdentifySchipholOperations
    \/ \E target_coords \in Targets : AnalyzeResidentialImpact(target_coords)
    \/ EnhanceFlightData
    \/ StoreFlightData

Spec == Init /\ [][Next]_vars

(***************************************************************************)
(* The classification of one aircraft by the analyzer and by the fetcher.  *)
(***************************************************************************)
InitAircraft ==
    /\ aircraft \in [icao24 : Identifiers, callsign : Callsigns]
    /\ classifications = << >>
    /\ aircraft_type = << >>
    /\ ClassifyIdle
    /\ EtlIdle
    /\ ServiceIdle

ClassifyAircraftByIcao ==
    /\ classifications = << >>
    /\ classifications' =
           <<classify_aircraft_by_icao(aircraft.icao24, aircraft.callsign)>>
    /\ UNCHANGED
           <<aircraft, aircraft_type, classifyVars, etlVars, serviceVars>>

ClassifyAircraft ==
    /\ aircraft_type = << >>
    /\ aircraft_type' = <<classify_aircraft(aircraft.icao24)>>
    /\ UNCHANGED
           <<aircraft, classifications, classifyVars, etlVars, serviceVars>>

NextAircraft ==
    \/ ClassifyAircraftByIcao
    \/ ClassifyAircraft

SpecAircraft == InitAircraft /\ [][NextAircraft]_vars

(***************************************************************************)
(* The ETL pipeline: the collector appends rows to the SQLite table and    *)
(* run_etl_cycle is called again and again.                                *)
(***************************************************************************)
InitETL ==
    /\ EtlIdle
    /\ ClassifyIdle
    /\ AircraftIdle
    /\ ServiceIdle

\* The collector stores one more row.
AppendFlight ==
    /\ sqlite_flights < MaxFlights
    /\ sqlite_flights' = sqlite_flights + 1
    /\ UNCHANGED <<pg_flights, pg_sequence, etl_result, pg_committed>>
    /\ UNCHANGED <<classifyVars, aircraftVars, serviceVars>>

\* One call of run_etl_cycle; the query for the last processed id raises or
\* not, and each insert has one of the outcomes.
RunEtlCycle(query_fails) ==
    LET last_id == get_last_processed_id(pg_flights, query_fails)
        flights == extract_new_flights(sqlite_flights, last_id)
    IN  /\ pg_sequence + Len(flights) <= MaxSequence
        /\ IF flights = << >>
           THEN /\ etl_result' = [status |-> "success", flights_processed |-> 0]
                /\ pg_committed' = 0
                /\ UNCHANGED <<pg_flights, pg_sequence>>
           ELSE \E outcomes \in [DOMAIN flights -> InsertOutcomes] :
                    LET loaded == load_flights_to_postgresql(
                                      flights, outcomes, pg_sequence)
                    IN  /\ pg_flights' = pg_flights \o loaded.pending
                        /\ pg_sequence' = loaded.sequence
                        /\ pg_committed' = Len(loaded.pending)
                        /\ etl_result' =
                               [status |-> "success",
                                flights_processed |-> loaded.loaded_count]
        /\ UNCHANGED
               <<sqlite_flights, classifyVars, aircraftVars, serviceVars>>

NextETL ==
    \/ AppendFlight
    \/ \E query_fails \in BOOLEAN : RunEtlCycle(query_fails)

SpecETL == InitETL /\ [][NextETL]_vars

(***************************************************************************)
(* The collectors: start_two_week_collection of the two-week collector and *)
(* start_automated_collection of the OpenSky collector, statement by       *)
(* statement, with the signal handler running between any two of them.     *)
(***************************************************************************)
InitCollector ==
    /\ collector \in {"two_week", "automated"}
    /\ pc = IF collector = "two_week" THEN "initial_cycle" ELSE "schedule"
    /\ running = FALSE
    /\ signalled = FALSE
    /\ now = 0
    /\ clock \in IF collector = "two_week" THEN EntryClocks ELSE {0}
    /\ end_time \in IF collector = "two_week"
                    THEN {FourteenDays - d : d \in EntryDelays}
                    ELSE {FourteenDays}
    /\ jobs = << >>
    /\ last_cycle = 0
    /\ ClassifyIdle
    /\ AircraftIdle
    /\ EtlIdle
    /\ FetcherIdle
    /\ SchipholIdle
    /\ DualIdle

\* What no statement of the collectors' start methods touches.
CollectorFrame ==
    UNCHANGED <<classifyVars, aircraftVars, etlVars, fetcherVars,
                schipholVars, dualVars>>

\* run_collection_cycle of the running collector: the two-week collector
\* gives up once its period is over, and collects otherwise.
period_over == collector = "two_week" /\ now >= end_time

\* The initial cycle, called before the loop.
InitialCycle ==
    /\ pc = "initial_cycle"
    /\ IF period_over
       THEN running' = FALSE /\ UNCHANGED last_cycle
       ELSE last_cycle' = now /\ UNCHANGED running
    /\ pc' = "set_running"
    /\ UNCHANGED <<collector, signalled, now, clock, end_time, jobs>>
    /\ CollectorFrame

\* self.running = True
SetRunning ==
    /\ pc = "set_running"
    /\ running' = TRUE
    /\ pc' = "loop_test"
    /\ UNCHANGED <<collector, signalled, now, clock, end_time, jobs,
                   last_cycle>>
    /\ CollectorFrame

\* The test of the while loop.
LoopTest ==
    /\ pc = "loop_test"
    /\ pc' = IF collector = "two_week"
             THEN IF running /\ now < end_time THEN "schedule" ELSE "done"
             ELSE IF running THEN "run_pending" ELSE "done"
    /\ UNCHANGED <<collector, running, signalled, now, clock, end_time, jobs,
                   last_cycle>>
    /\ CollectorFrame

\* The two-week collector clears the schedule and schedules the cycle at
\* the interval of the hour, each time round the loop; the OpenSky
\* collector schedules it once, before the initial cycle.
Schedule ==
    /\ pc = "schedule"
    /\ IF collector = "two_week"
       THEN /\ jobs' = every_minutes_do(
                           << >>,
                           get_collection_interval(hour_of(clock, now)),
                           now)
            /\ pc' = "run_pending"
       ELSE /\ jobs' = every_minutes_do(jobs, interval_minutes, now)
            /\ pc' = "initial_cycle"
    /\ UNCHANGED <<collector, running, signalled, now, clock, end_time,
                   last_cycle>>
    /\ CollectorFrame

\* schedule.run_pending(): every job that is due runs the cycle and is due
\* again one interval later.  Both collectors hold at most one job.
RunPending ==
    /\ pc = "run_pending"
    /\ IF jobs # << >> /\ should_run(jobs[1], now)
       THEN /\ jobs' = <<[jobs[1] EXCEPT
                             !.next_run = now + jobs[1].interval * 60]>>
            /\ IF period_over
               THEN running' = FALSE /\ UNCHANGED last_cycle
               ELSE last_cycle' = now /\ UNCHANGED running
       ELSE UNCHANGED <<jobs, running, last_cycle>>
    /\ pc' = "sleep"
    /\ UNCHANGED <<collector, signalled, now, clock, end_time>>
    /\ CollectorFrame

\* time.sleep(30) or time.sleep(10)
Sleep ==
    /\ pc = "sleep"
    /\ now + poll_seconds(collector) <= MaxTime
    /\ now' = now + poll_seconds(collector)
    /\ pc' = "loop_test"
    /\ UNCHANGED <<collector, running, signalled, clock, end_time, jobs,
                   last_cycle>>
    /\ CollectorFrame

\* signal_handler, on the first SIGINT or SIGTERM after the entry.
SignalHandler ==
    /\ pc # "done"
    /\ ~signalled
    /\ signalled' = TRUE
    /\ running' = FALSE
    /\ UNCHANGED <<collector, pc, now, clock, end_time, jobs, last_cycle>>
    /\ CollectorFrame

NextCollector ==
    \/ InitialCycle
    \/ SetRunning
    \/ LoopTest
    \/ Schedule
    \/ RunPending
    \/ Sleep
    \/ SignalHandler

SpecCollector == InitCollector /\ [][NextCollector]_vars

(***************************************************************************)
(* The OpenSky client over time: get_current_flights is called again and   *)
(* again, with any time between two calls.                                 *)
(***************************************************************************)
InitFetcher ==
    /\ client \in NewFetchers
    /\ wall_clock = 0
    /\ call = no_call
    /\ collection_log = << >>
    /\ ClassifyIdle
    /\ AircraftIdle
    /\ EtlIdle
    /\ CollectorIdle
    /\ SchipholIdle
    /\ DualIdle

\* What no call of the OpenSky client touches.
FetcherFrame ==
    UNCHANGED <<classifyVars, aircraftVars, etlVars, collectorVars,
                schipholVars, dualVars>>

\* Half a minute passes.
Tick ==
    /\ wall_clock + 30 <= MaxClock
    /\ wall_clock' = wall_clock + 30
    /\ UNCHANGED <<client, call, collection_log>>
    /\ FetcherFrame

\* One call of get_current_flights.
GetCurrentFlights(token_response, flight_response) ==
    LET got == get_current_flights(client, wall_clock, token_response,
                                   flight_response)
    IN  /\ got.t <= MaxClock
        /\ client' = got.fetcher
        /\ wall_clock' = got.t
        /\ call' = [k \in DOMAIN no_call |-> got[k]]
        /\ UNCHANGED collection_log
        /\ FetcherFrame

NextFetcher ==
    \/ Tick
    \/ \E token_response \in TokenResponses :
           \E flight_response \in FlightResponses :
               GetCurrentFlights(token_response, flight_response)

SpecFetcher == InitFetcher /\ [][NextFetcher]_vars

(***************************************************************************)
(* The collection attempts of the OpenSky collector.                       *)
(***************************************************************************)
\* One call of collect_flight_data: the call of get_current_flights, then
\* the row for it.
CollectFlightData(token_response, flight_response, enhance_raises) ==
    LET got == get_current_flights(client, wall_clock, token_response,
                                   flight_response)
    IN  /\ Len(collection_log) < MaxLog
        /\ got.t <= MaxClock
        /\ client' = got.fetcher
        /\ wall_clock' = got.t
        /\ call' = [k \in DOMAIN no_call |-> got[k]]
        /\ collection_log' =
               Append(collection_log,
                      collection_row(got.returned, enhance_raises))
        /\ FetcherFrame

NextCollection ==
    \E token_response \in TokenResponses :
        \E flight_response \in FlightResponses :
            \E enhance_raises \in BOOLEAN :
                CollectFlightData(token_response, flight_response,
                                  enhance_raises)

SpecCollection == InitFetcher /\ [][NextCollection]_vars

(***************************************************************************)
(* The Schiphol client: _make_request is called again and again, with an   *)
(* hour or a day between two calls, or no time at all.                     *)
(***************************************************************************)
InitSchiphol ==
    /\ SchipholIdle
    /\ ClassifyIdle
    /\ AircraftIdle
    /\ EtlIdle
    /\ CollectorIdle
    /\ FetcherIdle
    /\ DualIdle

SchipholFrame ==
    UNCHANGED <<classifyVars, aircraftVars, etlVars, collectorVars,
                fetcherVars, dualVars>>

\* Time passes between two calls.
Elapse(gap) ==
    /\ schiphol_clock + gap <= MaxElapsed
    /\ schiphol_clock' = schiphol_clock + gap
    /\ UNCHANGED <<request_count, last_reset, requests_sent>>
    /\ SchipholFrame

\* One call of _make_request: the check of the rate limit, then the
\* request, which is counted when it succeeds and raises when it fails.
MakeRequest(succeeds) ==
    LET checked == check_rate_limit(request_count, last_reset, schiphol_clock)
        sent_before == IF checked.reset THEN 0 ELSE requests_sent
    IN  /\ checked.t <= MaxElapsed
        /\ succeeds \/ sent_before - checked.request_count < MaxFailures
        /\ schiphol_clock' = checked.t
        /\ last_reset' = checked.last_reset
        /\ request_count' = IF succeeds
                            THEN checked.request_count + 1
                            ELSE checked.request_count
        /\ requests_sent' = sent_before + 1
        /\ SchipholFrame

NextSchiphol ==
    \/ \E gap \in Gaps : Elapse(gap)
    \/ \E succeeds \in BOOLEAN : MakeRequest(succeeds)

SpecSchiphol == InitSchiphol /\ [][NextSchiphol]_vars

(***************************************************************************)
(* The shared OpenSky client: a collector gives it a box, and the enhanced *)
(* analysis calls get_dual_flight_data on it.                              *)
(***************************************************************************)
InitDual ==
    /\ DualIdle
    /\ ClassifyIdle
    /\ AircraftIdle
    /\ EtlIdle
    /\ CollectorIdle
    /\ FetcherIdle
    /\ SchipholIdle

DualFrame ==
    UNCHANGED <<classifyVars, aircraftVars, etlVars, collectorVars,
                fetcherVars, schipholVars>>

\* fetcher.AMSTERDAM_NOORD_BOUNDS = ... of a collector.
SetBounds(box) ==
    /\ fetcher_bounds' = box
    /\ UNCHANGED dual
    /\ DualFrame

\* One call of get_dual_flight_data; either fetch may raise.
GetDualFlightData(mode, local_raises, schiphol_raises) ==
    LET ended == get_dual_flight_data(fetcher_bounds, mode, local_raises,
                                      schiphol_raises)
    IN  /\ dual' = ended
        /\ fetcher_bounds' = ended.bounds
        /\ DualFrame

NextDual ==
    \/ \E box \in BoundingBoxes : SetBounds(box)
    \/ \E mode \in {"current", "historical"} :
           \E local_raises \in BOOLEAN :
               \E schiphol_raises \in BOOLEAN :
                   GetDualFlightData(mode, local_raises, schiphol_raises)

SpecDual == InitDual /\ [][NextDual]_vars

(***************************************************************************)
(* Properties.                                                             *)
(***************************************************************************)
Rows == {df.rows[i] : i \in DOMAIN df.rows}

HasNoise == NoiseColumns \subseteq df.columns

HasOperations == OperationColumns \subseteq df.columns

HasAltitude == "baro_altitude" \in df.columns

CoordsUndefined(row) == isna(row.latitude) \/ isna(row.longitude)

AltitudeUndefined(row) ==
    "baro_altitude" \notin DOMAIN row \/ isna(row.baro_altitude)

TierLabels ==
    {"High Impact", "Moderate Impact", "Low Impact", "Minimal Impact"}

PhaseLabels ==
    {"Landing/Takeoff", "Airport Vicinity", "Approach/Departure",
     "Transit (Low)", "Extended Approach", "Transit (Medium)",
     "Transit (High)"}

\* The eight compass octants, clockwise from north.
Octants == <<"north", "northeast", "east", "southeast",
             "south", "southwest", "west", "northwest">>

OctantNames == {Octants[k] : k \in DOMAIN Octants}

\* C1: for every report whose latitude or longitude is undefined,
\* classification raises no exception and every derived field is undefined:
\* the distances, the bearing, the operation phase, the corridor, the
\* estimated noise and the noise tier.  Stated for the reports of a frame
\* that carries the altitude column.
C1_UndefinedCoordsAllUndefined ==
    \A i \in DOMAIN df.rows :
        LET row == df.rows[i]
        IN  (HasAltitude /\ CoordsUndefined(row)) =>
                /\ raised = "none"
                /\ HasNoise =>
                       /\ row.distance_km = Inf
                       /\ isna(row.estimated_noise_db)
                       /\ row.noise_impact \notin TierLabels
                /\ HasOperations =>
                       /\ row.distance_to_schiphol_km = Inf
                       /\ isna(row.bearing_from_schiphol)
                       /\ row.schiphol_operation \notin PhaseLabels
                       /\ row.approach_corridor \notin OctantNames

\* C2: in every classified record the geometry-derived fields (distance,
\* bearing, operation phase, corridor) are all undefined when the latitude
\* or the longitude is undefined and all defined otherwise.
C2_GeometryJointlyUndefined ==
    \A row \in Rows :
        /\ HasOperations =>
               IF CoordsUndefined(row)
               THEN /\ row.distance_to_schiphol_km = Inf
                    /\ isna(row.bearing_from_schiphol)
                    /\ row.schiphol_operation = "Unknown"
                    /\ row.approach_corridor = "Unknown"
               ELSE /\ row.distance_to_schiphol_km \in 0..(Inf - 1)
                    /\ row.bearing_from_schiphol \in 0..3600
                    /\ row.schiphol_operation \in PhaseLabels
                    /\ row.approach_corridor \in OctantNames
        /\ HasNoise =>
               IF CoordsUndefined(row)
               THEN row.distance_km = Inf
               ELSE row.distance_km \in 0..(Inf - 1)

\* C2 witness: a classified frame holding a report without coordinates next
\* to one with coordinates.
C2_Witness ==
    /\ HasOperations
    /\ HasNoise
    /\ \E row \in Rows : CoordsUndefined(row)
    /\ \E row \in Rows : ~CoordsUndefined(row)

\* The phase table as the specification states it, for a distance in
\* metres and an altitude in feet.
PhaseTable(d, a) ==
    CASE d < 5000 /\ a < 1000 -> "Landing/Takeoff"
      [] d < 5000 /\ a >= 1000 -> "Airport Vicinity"
      [] 5000 <= d /\ d < 15000 /\ a < 5000 -> "Approach/Departure"
      [] 5000 <= d /\ d < 15000 /\ a >= 5000 -> "Transit (Low)"
      [] 15000 <= d /\ d < 30000 /\ a < 10000 -> "Extended Approach"
      [] 15000 <= d /\ d < 30000 /\ a >= 10000 -> "Transit (Medium)"
      [] d >= 30000 -> "Transit (High)"

\* C3: for every defined distance and defined altitude the operation phase
\* is the one of the phase table, each cut point belonging to the higher
\* band.
C3_PhaseTable ==
    HasOperations =>
        \A row \in Rows :
            (~CoordsUndefined(row) /\ ~AltitudeUndefined(row)) =>
                row.schiphol_operation =
                    PhaseTable(row.distance_to_schiphol_km, row.baro_altitude)

\* C3 witness: a report 20 km out at 8000 ft is an Extended Approach, and a
\* report at the altitude cut point of 1000 ft within 5 km is in the higher
\* band.
C3_Witness ==
    /\ HasOperations
    /\ \E row \in Rows :
           /\ ~CoordsUndefined(row) /\ ~AltitudeUndefined(row)
           /\ row.distance_to_schiphol_km = 19999
           /\ row.baro_altitude = 8000
           /\ row.schiphol_operation = "Extended Approach"
    /\ \E row \in Rows :
           /\ ~CoordsUndefined(row) /\ ~AltitudeUndefined(row)
           /\ row.distance_to_schiphol_km < 5000
           /\ row.baro_altitude = 1000
           /\ row.schiphol_operation = "Airport Vicinity"

\* The label of the else branch of a distance band.
ElseLabel(d) ==
    IF d < 5000 THEN "Airport Vicinity"
    ELSE IF d < 15000 THEN "Transit (Low)"
    ELSE IF d < 30000 THEN "Transit (Medium)"
    ELSE "Transit (High)"

\* C4: for every report with defined coordinates and undefined altitude (a
\* missing value, or no altitude field at all) the operation phase is the
\* else label of its distance band.
C4_UndefinedAltitudeElseBranch ==
    HasOperations =>
        \A row \in Rows :
            (~CoordsUndefined(row) /\ AltitudeUndefined(row)) =>
                row.schiphol_operation = ElseLabel(row.distance_to_schiphol_km)

\* The bearings of the domain [0, 360), in tenths of a degree.
BearingDomain == 0..3599

\* The bearings that identify_corridor maps to a corridor.
Arc(corridor) == {b \in BearingDomain : identify_corridor(b) = corridor}

\* C5: corridor assignment partitions the bearing domain [0, 360) into 8
\* contiguous 45-degree arcs, one per named octant: the corridor of every
\* classified report is an octant whose arc is 45 degrees wide, and every
\* octant is the image of some bearing.
C5_EightOctantPartition ==
    HasOperations =>
        \A row \in Rows :
            ~CoordsUndefined(row) =>
                /\ row.approach_corridor \in OctantNames
                /\ Cardinality(Arc(row.approach_corridor)) = 450
                /\ \A o \in OctantNames : Arc(o) # {}

\* The octant that begins at or before a bearing of [0, 360): north is
\* [0, 45), northeast [45, 90), and so on clockwise.
OctantOf(bearing) == Octants[(bearing \div 450) + 1]

\* C6: a bearing exactly on an octant boundary is assigned to the octant
\* that begins at that bearing: 0 and 44.9 map to north, 45.0 to northeast,
\* 90.0 to east, 135.0 to southeast, and so on.
C6_BoundaryClockwise ==
    HasOperations =>
        \A row \in Rows :
            LET bearing == row.bearing_from_schiphol
            IN  (bearing \in BearingDomain
                     /\ (bearing % 450 = 0 \/ bearing = 449)) =>
                    row.approach_corridor = OctantOf(bearing)

\* The noise formula of the specification in milli-dB, for an altitude in
\* feet and a distance in metres.
NoiseFormula(a, d) ==
    Max(30000, 80000 - Min(a * 5, 40000) - Min(d * 2, 20000))

\* C7: for every defined altitude >= 0 and distance >= 0 the estimated
\* noise equals max(30, 80 - min(altitude/1000 * 5, 40) - min(distance * 2,
\* 20)), with no other adjustment of the inputs; at altitude 0 and distance
\* 0 it is 80.  The value is compared at the one decimal that is stored.
C7_NoiseFormulaExact ==
    HasNoise =>
        \A row \in Rows :
            (~CoordsUndefined(row) /\ ~AltitudeUndefined(row)
                 /\ row.baro_altitude >= 0) =>
                row.estimated_noise_db =
                    round1(NoiseFormula(row.baro_altitude, row.distance_km))

\* C8: when the altitude of a report or its distance to the reference is
\* undefined its estimated noise is undefined, in the classified frame and
\* in the rows store_flight_data writes: no number stands in for it.
C8_UndefinedNoiseNotZero ==
    /\ HasNoise =>
           \A row \in Rows :
               (AltitudeUndefined(row) \/ row.distance_km = Inf) =>
                   isna(row.estimated_noise_db)
    /\ \A i \in DOMAIN stored :
           (isna(stored[i].baro_altitude) \/ isna(stored[i].latitude)
                \/ isna(stored[i].longitude)) =>
               isna(stored[i].estimated_noise_db)

\* C9: every estimated_noise_db value that calculate_noise_impact produces
\* is at least the floor value 30; 10000 ft at 10 km or more gives 30.
C9_NoiseAtLeastFloor ==
    HasNoise =>
        \A row \in Rows :
            /\ row.estimated_noise_db >= 300
            /\ (~AltitudeUndefined(row) /\ row.baro_altitude = 10000
                    /\ row.distance_km \in 10000..(Inf - 1)) =>
                   row.estimated_noise_db = 300

\* Both the altitude and the distance of a classified row are defined.
NoiseInputsDefined(row) ==
    ~AltitudeUndefined(row) /\ row.distance_km # Inf

\* C10: the noise is monotone non-increasing in each argument: of two
\* reports at the same distance the higher one is not louder, and of two
\* reports at the same altitude the farther one is not louder.
C10_NoiseMonotone ==
    HasNoise =>
        \A r1, r2 \in Rows :
            (NoiseInputsDefined(r1) /\ NoiseInputsDefined(r2)) =>
                /\ (r1.distance_km = r2.distance_km
                        /\ r1.baro_altitude <= r2.baro_altitude) =>
                       r2.estimated_noise_db <= r1.estimated_noise_db
                /\ (r1.baro_altitude = r2.baro_altitude
                        /\ r1.distance_km <= r2.distance_km) =>
                       r2.estimated_noise_db <= r1.estimated_noise_db

\* C10 witness: two reports at the same distance, one below 100 ft and one
\* above, with the higher strictly quieter; and, in another frame or the
\* same, two at the same altitude, one closer than 0.1 km, with the farther
\* strictly quieter.
C10_Witness ==
    /\ HasNoise
    /\ \/ \E r1, r2 \in Rows :
              /\ NoiseInputsDefined(r1) /\ NoiseInputsDefined(r2)
              /\ r1.distance_km = r2.distance_km
              /\ r1.baro_altitude < 100
              /\ r1.baro_altitude < r2.baro_altitude
              /\ r2.estimated_noise_db < r1.estimated_noise_db
       \/ \E r1, r2 \in Rows :
              /\ NoiseInputsDefined(r1) /\ NoiseInputsDefined(r2)
              /\ r1.baro_altitude = r2.baro_altitude
              /\ r1.distance_km < 100
              /\ r1.distance_km < r2.distance_km
              /\ r2.estimated_noise_db < r1.estimated_noise_db

\* The rank of a noise tier in the order minimal < low < moderate < high.
TierRank(tier) ==
    CASE tier = "Minimal Impact" -> 0
      [] tier = "Low Impact" -> 1
      [] tier = "Moderate Impact" -> 2
      [] tier = "High Impact" -> 3

\* C11: for every defined estimated noise value n the tier is High Impact
\* iff n >= 65, Moderate Impact iff 55 <= n < 65, Low Impact iff
\* 45 <= n < 55 and Minimal Impact iff n < 45, so that a louder report never
\* has a lower tier.
C11_NoiseTier ==
    HasNoise =>
        /\ \A row \in Rows :
               NoiseInputsDefined(row) =>
                   LET n == row.estimated_noise_db
                       tier == row.noise_impact
                   IN  /\ tier = "High Impact" <=> n >= 650
                       /\ tier = "Moderate Impact" <=> (550 <= n /\ n < 650)
                       /\ tier = "Low Impact" <=> (450 <= n /\ n < 550)
                       /\ tier = "Minimal Impact" <=> n < 450
        /\ \A r1, r2 \in Rows :
               (NoiseInputsDefined(r1) /\ NoiseInputsDefined(r2)
                    /\ r1.estimated_noise_db <= r2.estimated_noise_db) =>
                   TierRank(r1.noise_impact) <= TierRank(r2.noise_impact)

\* C11 witness: a report at exactly 55.0 dB, the cut point, is of Moderate
\* Impact, next to a report of High Impact.
C11_Witness ==
    /\ HasNoise
    /\ \E row \in Rows :
           /\ NoiseInputsDefined(row)
           /\ row.estimated_noise_db = 550
           /\ row.noise_impact = "Moderate Impact"
    /\ \E row \in Rows :
           /\ NoiseInputsDefined(row)
           /\ row.noise_impact = "High Impact"

\* C12: for every report with defined coordinates the distances are
\* non-negative and bearing_from_schiphol is in [0, 360): 360.0 is never
\* produced, also after the rounding to one decimal.
C12_BearingHalfOpen ==
    /\ HasOperations =>
           \A row \in Rows :
               ~CoordsUndefined(row) =>
                   /\ row.distance_to_schiphol_km >= 0
                   /\ row.bearing_from_schiphol >= 0
                   /\ row.bearing_from_schiphol < 3600
    /\ HasNoise =>
           \A row \in Rows : ~CoordsUndefined(row) => row.distance_km >= 0

\* C13: the classification never raises for a data issue of a record: for
\* a report whose altitude is absent (None, NaN or no altitude column) or
\* whose coordinates are present but not finite, the calls still return.
\* The only exception left is the one for a reference point that is not
\* valid, raised while every report with coordinates is a valid point.
C13_NeverRaisesForRecord ==
    \/ raised = "none"
    \/ /\ raised = "ValueError"
       /\ \A row \in Rows : CoordsUndefined(row) \/ valid_point(row)

\* C14: a reference point that is not valid is rejected before any report
\* is processed: no call with such target_coords returns a result, also for
\* an empty batch and for a batch whose reports all lack coordinates.
C14_MalformedReferenceRejected ==
    \A i \in DOMAIN target : valid_point(target[i])

\* The raw fields of the i-th report of the batch.
RawReport(i) == as_row(batch.rows[i], batch.columns \cap RawColumns)

\* C15: the output has exactly one record per input report, in the same
\* order: the frame produced by calculate_noise_impact,
\* identify_schiphol_operations and enhance_flight_data has as many rows as
\* the batch, the i-th row carries the raw fields of the i-th report, and
\* every store of the frame writes its rows in order.
C15_OneRecordPerReport ==
    /\ Len(df.rows) = Len(batch.rows)
    /\ \A i \in DOMAIN df.rows :
           as_row(df.rows[i], batch.columns \cap RawColumns) = RawReport(i)
    /\ \A k \in DOMAIN stored :
           stored[k] = db_rows(df)[((k - 1) % Len(df.rows)) + 1]

\* C15 witness: two different reports, the first without coordinates, have
\* been classified and stored.
C15_Witness ==
    /\ HasNoise /\ HasOperations
    /\ Len(df.rows) = 2
    /\ CoordsUndefined(df.rows[1])
    /\ ~CoordsUndefined(df.rows[2])
    /\ stored # << >>

\* A call of one of the three operations of the analyzer.
AnalyzerCall ==
    \/ \E target_coords \in Targets : CalculateNoiseImpact(target_coords)
    \/ IdentifySchipholOperations
    \/ \E target_coords \in Targets : AnalyzeResidentialImpact(target_coords)

\* C16: calculate_noise_impact, identify_schiphol_operations and
\* analyze_residential_impact have no side effect on their input: after the
\* call the frame passed in has the same rows, columns and values as
\* before, for an empty and for a non-empty frame.
C16_NoSideEffect == [][AnalyzerCall => batch' = batch]_vars

\* C16 witness: a non-empty batch has been classified by the analyzer and
\* has its raw columns only.
C16_Witness ==
    /\ HasNoise /\ HasOperations
    /\ batch.rows # << >>
    /\ batch.columns = RawColumns

\* C17: classifying the same report twice with the same reference point
\* yields identical derived fields: whatever calls were made before, the
\* derived fields of a row are those of a classification of its raw report
\* alone with the reference point, and two equal reports of a batch have
\* equal rows.
C17_DependsOnlyOnReport ==
    raised = "none" =>
        /\ \A i \in DOMAIN df.rows :
               /\ HasNoise =>
                      \A col \in NoiseColumns :
                          df.rows[i][col]
                              = noise_row(RawReport(i), target[1])[col]
               /\ HasOperations =>
                      \A col \in OperationColumns :
                          df.rows[i][col] = operation_row(RawReport(i))[col]
        /\ \A i, j \in DOMAIN df.rows :
               batch.rows[i] = batch.rows[j] => df.rows[i] = df.rows[j]

\* C17 witness: a batch of the same report twice, 14 km from Schiphol and
\* next to the house, has been classified against the house.
C17_Witness ==
    /\ HasNoise /\ HasOperations
    /\ raised = "none"
    /\ target = <<house_coords>>
    /\ Len(df.rows) = 2
    /\ batch.rows[1] = batch.rows[2]
    /\ df.rows[1].distance_to_schiphol_km = 13723
    /\ df.rows[1].schiphol_operation = "Approach/Departure"

\* C18: for an empty or absent identifier, whatever the callsign is,
\* classify_aircraft_by_icao returns the category Unknown and the type
\* Unknown, and _classify_aircraft returns Unknown.
C18_UnknownWithoutIdentifier ==
    ~truthy(aircraft.icao24) =>
        /\ \A k \in DOMAIN classifications :
               /\ classifications[k].category = "Unknown"
               /\ classifications[k].type = "Unknown"
        /\ \A k \in DOMAIN aircraft_type : aircraft_type[k] = "Unknown"

\* C18 witness: an aircraft without identifier and with the callsign of an
\* airline has been classified by both.
C18_Witness ==
    /\ aircraft.icao24 = << >>
    /\ startswith(aircraft.callsign, <<"K", "L", "M">>)
    /\ classifications # << >>
    /\ aircraft_type # << >>

\* C19: the category is decided by the first rule that matches, in
\* declaration order: a category set from the prefix of the identifier is
\* never overwritten by the later rule on the callsign of a private
\* aircraft.
C19_FirstMatchWins ==
    \A k \in DOMAIN classifications :
        (truthy(aircraft.icao24)
             /\ classify_by_prefix(strip(upper(aircraft.icao24))).category
                    # "Unknown") =>
            classifications[k].category # "Private/General Aviation"

\* C20: across any sequence of run_etl_cycle calls, with rows being
\* appended and with inserts or the query for the last processed id
\* failing, each row of the SQLite table is loaded into PostgreSQL at most
\* once.
C20_LoadedAtMostOnce ==
    \A i, j \in DOMAIN pg_flights :
        pg_flights[i].flight = pg_flights[j].flight => i = j

\* The rows of the SQLite table that PostgreSQL holds.
Loaded == {pg_flights[k].flight : k \in DOMAIN pg_flights}

\* C21: no row of the SQLite table is skipped for good: a row that
\* PostgreSQL does not hold, a row whose insert failed among them, is still
\* above the last processed id, so that the next cycle whose query and
\* inserts succeed extracts and loads it.
C21_NoRowSkipped ==
    \A flight \in 1 .. sqlite_flights :
        flight \notin Loaded =>
            flight > get_last_processed_id(pg_flights, FALSE)

\* C22: the count that load_flights_to_postgresql returns, reported as
\* flights_processed, is the number of rows the call committed, for every
\* pattern of failing inserts.
C22_CountIsCommitted ==
    etl_result.flights_processed = pg_committed

\* C23: while the two-week loop runs and the period has not ended, a cycle
\* follows every cycle: once the loop has run the pending jobs, the last
\* cycle is never older than the longer of the two intervals.
C23_NextCycleComes ==
    (collector = "two_week" /\ pc = "sleep" /\ running /\ now < end_time)
        => now - last_cycle < Max(peak_interval_minutes,
                                  night_interval_minutes) * 60

\* C24: a shutdown signal delivered after the entry is never lost: once it
\* has been delivered, self.running stays False, so the loop stops at its
\* next test.
C24_ShutdownNeverLost ==
    signalled => ~running

\* C25: the interval the two-week collector schedules with is the peak
\* interval exactly from 06:00 up to 23:00 and the night interval exactly
\* from 23:00 up to 06:00.
C25_IntervalOfTheHour ==
    (collector = "two_week" /\ pc = "run_pending")
        => jobs[1].interval =
               IF 6 <= hour_of(clock, now) /\ hour_of(clock, now) < 23
               THEN peak_interval_minutes
               ELSE night_interval_minutes

\* A call of get_current_flights on the client.
FetcherCall ==
    \E token_response \in TokenResponses :
        \E flight_response \in FlightResponses :
            GetCurrentFlights(token_response, flight_response)

\* The headers of the call carry a bearer token.
Bearer(headers) == "Authorization" \in DOMAIN headers

\* C26: every Authorization header that _get_auth_headers returns carries a
\* token that has not expired at the server when it is returned; the cached
\* token is reused only before token_expires_at, and a token is requested
\* whenever the client authenticates with OAuth2 and has no token it takes
\* for valid.
C26_TokenNotExpired ==
    [][FetcherCall =>
           /\ Bearer(call'.headers) =>
                  wall_clock' < call'.headers.Authorization.issued_at
                                    + call'.headers.Authorization.lifetime
           /\ (Bearer(call'.headers) /\ ~call'.token.requested) =>
                  /\ token_is_valid(client, wall_clock)
                  /\ call'.headers.Authorization = client.access_token[1]
           /\ (client.auth_method = "oauth2"
                   /\ ~token_is_valid(client, wall_clock)) =>
                  call'.token.requested]_vars

\* The cached token is reused in the last half minute before
\* token_expires_at, after an earlier token had been replaced.
C26_Witness ==
    /\ Bearer(call.headers)
    /\ ~call.token.requested
    /\ call.headers.Authorization.issued_at > 0
    /\ client.token_expires_at - wall_clock <= 30

\* C27: when the token request fails, _get_oauth2_token returns False and
\* leaves access_token and token_expires_at as they were, no Authorization
\* header is returned, the flight request is still sent, with no
\* credentials, and get_current_flights returns an empty table and does not
\* raise if that request fails too.
C27_FailedTokenRequest ==
    [][(FetcherCall /\ call'.token.requested
            /\ call'.token_response = "error") =>
           /\ ~call'.token.ok
           /\ client'.access_token = client.access_token
           /\ client'.token_expires_at = client.token_expires_at
           /\ ~Bearer(call'.headers)
           /\ call'.sent # << >>
           /\ ~Bearer(call'.sent[1].headers)
           /\ ~call'.sent[1].basic_auth
           /\ call'.raised = "none"
           /\ call'.flight_response = "error" =>
                  call'.returned = "empty"]_vars

\* The request for a token to replace the cached one has failed, and so
\* has the flight request.
C27_Witness ==
    /\ call.token.requested
    /\ call.token_response = "error"
    /\ client.access_token # << >>
    /\ call.flight_response = "error"
    /\ call.returned = "empty"

\* A call of collect_flight_data.
CollectionAttempt ==
    \E token_response \in TokenResponses :
        \E flight_response \in FlightResponses :
            \E enhance_raises \in BOOLEAN :
                CollectFlightData(token_response, flight_response,
                                  enhance_raises)

\* C30: the row that a collection attempt writes to collection_log has
\* api_success False and an error message whenever the API request of the
\* attempt failed, and has api_success True only when it succeeded.
C30_FailedRequestLogged ==
    [][CollectionAttempt =>
           LET row == collection_log'[Len(collection_log')]
           IN  /\ call'.flight_response = "error" =>
                      (~row.api_success /\ row.error_message # NoneText)
               /\ row.api_success => call'.flight_response # "error"]_vars

\* A call of _make_request.
SchipholCall == \E succeeds \in BOOLEAN : MakeRequest(succeeds)

\* C28: between two resets of request_count the Schiphol client sends at
\* most max_requests_per_hour HTTP requests, whether they succeed or fail,
\* and a call made 3600 seconds or more after last_reset resets the count.
C28_RateLimitEnforced ==
    [][SchipholCall =>
           /\ requests_sent' <= max_requests_per_hour
           /\ schiphol_clock - last_reset >= reset_after =>
                  last_reset' >= schiphol_clock]_vars

\* A call of get_dual_flight_data.
DualCall ==
    \E mode \in {"current", "historical"} :
        \E local_raises \in BOOLEAN :
            \E schiphol_raises \in BOOLEAN :
                GetDualFlightData(mode, local_raises, schiphol_raises)

\* C29: get_dual_flight_data swaps the box of the client only for the time
\* of the second fetch: the local fetch asks for the box the client had
\* before the call, the Schiphol fetch for the expanded box, and whether
\* the call returns or raises, the client ends with the box it had before.
C29_BoundsRestored ==
    [][DualCall =>
           /\ dual'.local = <<fetcher_bounds>>
           /\ dual'.schiphol # << >> =>
                  dual'.schiphol = <<schiphol_approach_bounds>>
           /\ ~dual'.raised => dual'.schiphol # << >>
           /\ fetcher_bounds' = fetcher_bounds]_vars

\* The Schiphol fetch has raised, on a client that had another box than the
\* expanded one.
C29_Witness ==
    /\ dual.raised
    /\ dual.schiphol = <<schiphol_approach_bounds>>
    /\ dual.before # schiphol_approach_bounds
    /\ fetcher_bounds = dual.before

=============================================================================
